---- MODULE Spec2Model ----
(***************************************************************************)
(* Gas Log Controller: the valve driver with its safety accounting         *)
(* (src/src/valveDriver.cpp), the hysteresis thermostat                    *)
(* (src/src/thermostat.cpp) and the control loop with its command          *)
(* handlers (src/src/main.cpp, src/src/mqttProcessor.cpp).                 *)
(*                                                                         *)
(* Temperatures are in tenths of a degree Fahrenheit, voltages in          *)
(* millivolts.                                                             *)
(*                                                                         *)
(* Time.  `now' is the value millis() returns, an unsigned counter that    *)
(* wraps at MillisWrap (2^32 in the firmware).  Durations are counted in   *)
(* model ticks; the configured durations are scaled so that their order    *)
(* is the firmware's:                                                      *)
(*   0 < timeToOpenValve, timeToCloseValve < INHIBIT_RESET_MS              *)
(*     < MAX_TOTAL_OPEN_MS < MillisWrap.                                   *)
(* The wall clock (time(nullptr), set by SNTP) is the separate variable    *)
(* `hour'; the firmware reads only its hour.                               *)
(***************************************************************************)
EXTENDS Integers, FiniteSets, Sequences, TLC

\* ---------------------------------------------------------------- bounds
\* millis() wraps at this value (2^32 ms in the firmware).
MillisWrap == 6
\* The ghost counters of true elapsed time saturate here ("this or more").
TrueCap == 8

\* ------------------------------------------------- configuration constants
timeToOpenValve == 1
timeToCloseValve == 1
MAX_TOTAL_OPEN_MS == 3
INHIBIT_RESET_MS == 2
OPERATION_ALLOWED_BEGIN_HOUR == 10
OPERATION_ALLOWED_END_HOUR == 23
OPERATION_ALLOWED_BEGIN_MINUTE == 0
OPERATION_ALLOWED_END_MINUTE == 0
\* THERMOSTAT_HYSTERESIS (0.2 degrees) in tenths of a degree.
THERMOSTAT_HYSTERESIS == 2
\* valveVoltage (6.5 V) in millivolts.
valveVoltage == 6500
\* voltageDividerRatio (15.24) in hundredths.
voltageDividerRatio == 1524
\* N, the number of ADC samples readVoltageDutyCycle averages (10 in the
\* firmware, fewer here).
N == 4

\* Wall-clock hours the model observes: both sides of both window boundaries.
ClockHours == {9, 10, 22, 23}
\* Wall-clock minutes the model observes.
ClockMinutes == {0, 30}
\* Values of the minute parts of the window a build can be configured with:
\* the shipped 0 and a half hour.
ConfigMinutes == {0, 30}
\* NAN, the reading of an absent or failed sensor (no temperature is negative here).
NaN == -1
\* Sensor readings in tenths of a degree Fahrenheit.
Readings == {NaN, 698, 700, 702}
Setpoints == {69, 70}
\* payloads of gaslog/set_mode: the three accepted ones and another
MqttModes == {"OFF", "ON", "THERMOSTAT", "AUTO"}
\* payloads of gaslog/set_setpoint: two integers, a decimal, a word, nothing
MqttSetpoints == {"69", "70", "70.5", "abc", ""}
\* JSON values of a WebSocket setpoint message: two integers, a decimal, a
\* string, null
WsSetpoints == {"69", "70", "70.5", "\"70\"", "null"}
\* values of a WebSocket mode message: the two accepted ones in several
\* spellings, and others
WsModes == {"automatic", "Automatic", "manual", "MANUAL", "thermostat", ""}
Modes == {"MODE_OFF", "MODE_ON", "MODE_THERMOSTAT"}
\* every value controlState.mode can hold: the three modes and any other
ModeValues == Modes \cup {"MODE_INVALID"}
\* room temperatures thermostatHeatCall is exercised with: below, on and
\* inside the thresholds of setpoint 70, and above them
RoomTemps == {690, 698, 699, 700, 702, 703, 705}
\* millivolt readings of analogReadMilliVolts(PIN_VOLTAGE_SENSE): no supply,
\* a supply below the valve voltage (4.6 V), above it (9.1 V, 13.7 V)
SupplySamples == {0, 300, 600, 900}
\* the readings of one call when the supply is steady
SteadySupplies == {[i \in 1..N |-> v] : v \in SupplySamples}
\* the worked example of the thermostat: setpoint and room temperatures
ExampleSetpoint == 70
ExampleTemps == <<690, 699, 703, 705>>

VARIABLES
  now,                  \* millis()
  hour,                 \* tm_hour of the wall clock
  isValveOpen,          \* valveDriver.cpp:29
  cumulativeOpenMillis, \* valveDriver.cpp:32
  lastOpenedAt,         \* valveDriver.cpp:33
  timeLimitActive,      \* valveDriver.cpp:34
  inhibitStartMillis,   \* valveDriver.cpp:35
  mode,                 \* controlState.mode
  setpointF,            \* controlState.setpointF
  tempF,                \* static tempF of loop()
  heatCall,             \* static heatCall of thermostatHeatCall()
  valveState,           \* controlState.valveState
  tempSensorAvailable,  \* main.cpp:21
  status,               \* the last message the last step passed to
                        \* updateWebStatus(), "" when it passed none
  samples,              \* the ADC readings of the last readVoltageDutyCycle()
  duty,                 \* the duty the last readVoltageDutyCycle() returned
  calls,                \* ghost: arguments and results of the first direct calls
                        \* of thermostatHeatCall
  inFlight,             \* the pulse in progress: "none", "open", "close"
  startTime,            \* startTime of openValve()/closeValve(), 0 outside a pulse
  in1,                  \* level written to PIN_HBRIDGE_IN1
  in2,                  \* level written to PIN_HBRIDGE_IN2
  ch1,                  \* duty of HBRIDGE_LEDC_CH1 (closing direction)
  ch2,                  \* duty of HBRIDGE_LEDC_CH2 (opening direction)
  powerOn,              \* controlState.powerOn
  autoMode,             \* controlState.autoMode
  minute,               \* tm_min of the wall clock
  beginMinute,          \* OPERATION_ALLOWED_BEGIN_MINUTE of the build
  endMinute,            \* OPERATION_ALLOWED_END_MINUTE of the build
  roomTempF,            \* controlState.roomTempF
  sensed,               \* ghost: the outcome of the last sensor update of
                        \* loop(): "none", "ok", "failed"
  inhibitedFor,         \* ghost: true ticks since inhibitStartMillis was stored
                        \* (MillisWrap: that or more), 0 when it is 0
  veto,                 \* ghost: "denied" once a control cycle's open request was
                        \* denied by the schedule, "healed" when a later cycle
                        \* has opened the valve with no command in between
  pulse,                \* the pulse the last step drove: "none", "open", "close"
  last,                 \* the operation that made the last step
  openFor,              \* ghost: true ticks since the opening pulse ended
  endedSum,             \* ghost: true sum of the ended open intervals since the last reset
  outsideFor,           \* ghost: true ticks the wall clock has been outside the window
  observed              \* ghost: valveDriverLoop has run since the wall clock last changed

driverVars == <<isValveOpen, cumulativeOpenMillis, lastOpenedAt, timeLimitActive,
                inhibitStartMillis>>
controlVars == <<mode, setpointF, tempF, heatCall, valveState>>
ghostVars == <<openFor, endedSum, outsideFor, observed>>
ioVars == <<tempSensorAvailable, samples, duty, calls>>
hwVars == <<inFlight, startTime, in1, in2, ch1, ch2>>
wsVars == <<powerOn, autoMode>>
schedVars == <<minute, beginMinute, endMinute>>
sensorVars == <<roomTempF, sensed>>
vars == <<now, hour, driverVars, controlVars, status, ioVars, hwVars, wsVars, veto,
          schedVars, sensorVars, inhibitedFor, pulse, last, ghostVars>>

\* ------------------------------------------------------------ arithmetic
Min(a, b) == IF a < b THEN a ELSE b

\* unsigned long addition
AddMillis(a, b) == (a + b) % MillisWrap

\* Mutant of Elapsed: the difference does not wrap, a reading of millis()
\* below the stored one counts as no time.
ElapsedSigned(t, since) == IF t >= since THEN t - since ELSE 0

\* unsigned long subtraction: millis() - since
Elapsed(t, since) == (t - since + MillisWrap) % MillisWrap

\* saturating addition of the ghost counters
TrueAdd(a, b) == Min(a + b, TrueCap)

\* the true ticks that pass in a step: a pulse lasts its travel time, any
\* other step in which millis() moves lasts one tick
StepTicks ==
  IF now' = now THEN 0
  ELSE IF pulse' = "open" THEN timeToOpenValve
  ELSE IF pulse' = "close" THEN timeToCloseValve
  ELSE 1

\* Ghost inhibitedFor in a step: it counts from the step that stores
\* inhibitStartMillis and is 0 while inhibitStartMillis is 0.
InhibitGhost ==
  inhibitedFor' = IF inhibitStartMillis' = 0 THEN 0
                  ELSE IF inhibitStartMillis' = inhibitStartMillis
                  THEN Min(inhibitedFor + StepTicks, MillisWrap)
                  ELSE StepTicks

\* ---------------------------------------------------------- supply voltage
RECURSIVE SumTo(_, _)
\* the sum of the first n readings (valveDriver.cpp:57-62)
SumTo(s, n) == IF n = 0 THEN 0 ELSE SumTo(s, n - 1) + s[n]

\* Mutant of readVoltageDutyCycle: the duty is truncated, not rounded.
readVoltageDutyCycleTruncated(s) ==
  LET avg_mV == SumTo(s, N) \div N
      supplyVoltage == avg_mV * voltageDividerRatio
      target == valveVoltage * 100
  IN IF supplyVoltage = 0 THEN 255
     ELSE IF target >= supplyVoltage THEN 255
     ELSE (255 * target) \div supplyVoltage

\* uint8_t readVoltageDutyCycle(): the duty for the readings s.  The ratio
\* valveVoltage / supplyVoltage is a float division: with a supply of 0 V it
\* is +infinity, which the clamp brings to 1.
readVoltageDutyCycle(s) ==
  LET avg_mV == SumTo(s, N) \div N
      \* both voltages in units of 10 microvolts
      supplyVoltage == avg_mV * voltageDividerRatio
      target == valveVoltage * 100
  IN IF supplyVoltage = 0 THEN 255
     ELSE IF target >= supplyVoltage THEN 255
     ELSE (2 * 255 * target + supplyVoltage) \div (2 * supplyVoltage)

\* ------------------------------------------------------------ valve driver
IsOperationAllowed(h) ==
  IF OPERATION_ALLOWED_BEGIN_HOUR <= OPERATION_ALLOWED_END_HOUR
  THEN h >= OPERATION_ALLOWED_BEGIN_HOUR /\ h < OPERATION_ALLOWED_END_HOUR
  ELSE h >= OPERATION_ALLOWED_BEGIN_HOUR \/ h < OPERATION_ALLOWED_END_HOUR

\* Mutant of BudgetSpent: an open request never looks at the accumulated total.
BudgetSpentNever(cum) == FALSE

\* Mutant of BudgetSpent: every open request finds the budget spent.
BudgetSpentAlways(cum) == TRUE

\* "we've already exceeded the limit" of valveOpenRequest (valveDriver.cpp:332)
BudgetSpent(cum) == cum >= MAX_TOTAL_OPEN_MS

\* the elapsed open time a close adds to the accumulator (valveDriver.cpp:348-352)
Accumulated(cum, open, since, t) ==
  IF open /\ since # 0 THEN AddMillis(cum, Elapsed(t, since)) ELSE cum

\* runningOpenMs of valveDriverLoop (valveDriver.cpp:193-197)
RunningOpenMs(open, since, t) ==
  IF open /\ since # 0 THEN Elapsed(t, since) ELSE 0

\* the limit branch of valveDriverLoop is taken (valveDriver.cpp:199-200)
LimitExceeded(limit, cum, running) ==
  ~limit /\ AddMillis(cum, running) >= MAX_TOTAL_OPEN_MS

\* Mutant of CumAfterLimit: the running interval is not folded in.
CumAfterLimitDropped(cum, running) == cum

\* cumulativeOpenMillis after the limit branch closed the valve (valveDriver.cpp:208)
CumAfterLimit(cum, running) == AddMillis(cum, running)

\* Mutant of OpenAfterLimit: the limit is flagged but the valve is left as it was.
OpenAfterLimitKept(open) == open

\* isValveOpen after the limit branch (valveDriver.cpp:205-212)
OpenAfterLimit(open) == FALSE

\* inhibitStartMillis after the tracking step (valveDriver.cpp:182-190)
InhibitTracked(allowed, start, t) ==
  IF ~allowed THEN (IF start = 0 THEN t ELSE start) ELSE 0

\* Mutant of ResetDue: the reset does not require the limit to be active.
ResetDueNoLimit(limit, start, t) ==
  start # 0 /\ Elapsed(t, start) >= INHIBIT_RESET_MS

\* Mutant of ResetDue: the reset does not wait for INHIBIT_RESET_MS.
ResetDueAtOnce(limit, start, t) == limit /\ start # 0

\* the reset branch of valveDriverLoop is taken (valveDriver.cpp:218-220)
ResetDue(limit, start, t) ==
  limit /\ start # 0 /\ Elapsed(t, start) >= INHIBIT_RESET_MS

\* Mutant of AlreadyMatches: every request is acted on.
AlreadyMatchesNever(openValveRequest, open) == FALSE

\* Mutant of AlreadyMatches: only a close request on a closed valve is skipped.
AlreadyMatchesClosedOnly(openValveRequest, open) ==
  openValveRequest = open /\ ~open

\* "if requested state already matches, nothing to do" (valveDriver.cpp:297)
AlreadyMatches(openValveRequest, open) == openValveRequest = open

\* Ghosts when `d' ticks of true time pass.
GhostPass(d, open) ==
  /\ openFor' = IF open THEN TrueAdd(openFor, d) ELSE 0
  /\ outsideFor' = IF IsOperationAllowed(hour) THEN 0
                   ELSE Min(outsideFor + d, INHIBIT_RESET_MS)

\* void valveOpenRequest(bool openValveRequest)
valveOpenRequest(openValveRequest) ==
  IF AlreadyMatches(openValveRequest, isValveOpen)
  THEN \* requested state already matches: nothing to do
       /\ pulse' = "none"
       /\ UNCHANGED <<now, driverVars, openFor, endedSum, outsideFor>>
  ELSE IF openValveRequest
  THEN IF ~IsOperationAllowed(hour)
       THEN \* blocked: outside permitted hours
            IF isValveOpen
            THEN \* "ensure valve is closed if it somehow was open"
                 /\ pulse' = "close"
                 /\ cumulativeOpenMillis' =
                      Accumulated(cumulativeOpenMillis, isValveOpen, lastOpenedAt, now)
                 /\ lastOpenedAt' = 0
                 /\ isValveOpen' = FALSE
                 /\ now' = AddMillis(now, timeToCloseValve)
                 /\ endedSum' = TrueAdd(endedSum, openFor)
                 /\ GhostPass(timeToCloseValve, FALSE)
                 /\ UNCHANGED <<timeLimitActive, inhibitStartMillis>>
            ELSE /\ pulse' = "none"
                 /\ UNCHANGED <<now, driverVars, openFor, endedSum, outsideFor>>
       ELSE IF timeLimitActive
       THEN \* blocked: time limit active
            /\ pulse' = "none"
            /\ UNCHANGED <<now, driverVars, openFor, endedSum, outsideFor>>
       ELSE IF BudgetSpent(cumulativeOpenMillis)
       THEN \* blocked: cumulative open time exceeded
            /\ pulse' = "none"
            /\ timeLimitActive' = TRUE
            /\ UNCHANGED <<now, isValveOpen, cumulativeOpenMillis, lastOpenedAt,
                           inhibitStartMillis, openFor, endedSum, outsideFor>>
       ELSE \* OK to open: openValve(); isValveOpen = true; lastOpenedAt = millis()
            /\ pulse' = "open"
            /\ now' = AddMillis(now, timeToOpenValve)
            /\ isValveOpen' = TRUE
            /\ lastOpenedAt' = AddMillis(now, timeToOpenValve)
            /\ openFor' = 0
            /\ outsideFor' = IF IsOperationAllowed(hour) THEN 0
                             ELSE Min(outsideFor + timeToOpenValve, INHIBIT_RESET_MS)
            /\ UNCHANGED <<cumulativeOpenMillis, timeLimitActive, inhibitStartMillis,
                           endedSum>>
  ELSE \* closing request: add the elapsed open time, closeValve()
       /\ pulse' = "close"
       /\ cumulativeOpenMillis' =
            Accumulated(cumulativeOpenMillis, isValveOpen, lastOpenedAt, now)
       /\ lastOpenedAt' = 0
       /\ isValveOpen' = FALSE
       /\ now' = AddMillis(now, timeToCloseValve)
       /\ endedSum' = TrueAdd(endedSum, openFor)
       /\ GhostPass(timeToCloseValve, FALSE)
       /\ UNCHANGED <<timeLimitActive, inhibitStartMillis>>

\* the message valveOpenRequest passes to updateWebStatus, "" when it passes
\* none (valveDriver.cpp:306, 327, 335)
RequestStatus(openValveRequest) ==
  IF AlreadyMatches(openValveRequest, isValveOpen) \/ ~openValveRequest THEN ""
  ELSE IF ~IsOperationAllowed(hour) THEN "Operation inhibited by schedule"
  ELSE IF timeLimitActive THEN "Time limit active: Valve remains closed"
  ELSE IF BudgetSpent(cumulativeOpenMillis) THEN "Time limit exceeded: Valve closed"
  ELSE ""

\* the pulse valveOpenRequest drives for the request, "none" when it drives
\* none (valveDriver.cpp:294-357)
PulseFor(openValveRequest) ==
  IF AlreadyMatches(openValveRequest, isValveOpen) THEN "none"
  ELSE IF ~openValveRequest THEN "close"
  ELSE IF ~IsOperationAllowed(hour) THEN (IF isValveOpen THEN "close" ELSE "none")
  ELSE IF timeLimitActive \/ BudgetSpent(cumulativeOpenMillis) THEN "none"
  ELSE "open"

\* the travel time of a pulse
PulseDuration(p) == IF p = "open" THEN timeToOpenValve ELSE timeToCloseValve

\* Mutant of PulseDone: the wait never ends.
PulseDoneNever(t, start, d) == FALSE

\* Mutant of PulseDone: the wait ends at once.
PulseDoneAtOnce(t, start, d) == TRUE

\* the wait of openValve()/closeValve() is over:
\* while (millis() - startTime < timeToOpenValve) has ended
PulseDone(t, start, d) == Elapsed(t, start) >= d

\* Mutant of DutyAfterPulse: the PWM output is left as it was.
DutyAfterPulseKept(d) == d

\* the duty deenergizeValve() writes to a PWM channel (valveDriver.cpp:94-95)
DutyAfterPulse(d) == 0

\* Mutant of OpenAfterBegin: the logical state is not reset at boot.
OpenAfterBeginKept(open) == open

\* isValveOpen after valveDriverBegin() (valveDriver.cpp:275)
OpenAfterBegin(open) == FALSE

\* void valveDriverBegin(): idle the bridge, drive the closing pulse for its
\* full travel time, reset the logical state and the safety counters.
\* millis() starts at 0 on power-up.
valveDriverBegin ==
  /\ samples' = [i \in 1..N |-> 900]
  /\ duty' = readVoltageDutyCycle(samples')
  /\ in1' = "LOW"
  /\ in2' = "LOW"
  /\ ch1' = DutyAfterPulse(duty')
  /\ ch2' = DutyAfterPulse(ch2)
  /\ inFlight' = "none"
  /\ startTime' = 0
  /\ pulse' = "close"
  /\ now' = timeToCloseValve
  /\ isValveOpen' = OpenAfterBegin(isValveOpen)
  /\ cumulativeOpenMillis' = 0
  /\ lastOpenedAt' = 0
  /\ timeLimitActive' = FALSE
  /\ inhibitStartMillis' = 0

\* void valveDriverLoop()
valveDriverLoop ==
  LET allowed == IsOperationAllowed(hour)
      start1 == InhibitTracked(allowed, inhibitStartMillis, now)
      running == RunningOpenMs(isValveOpen, lastOpenedAt, now)
      exceeded == LimitExceeded(timeLimitActive, cumulativeOpenMillis, running)
      closes == exceeded /\ isValveOpen
      cum1 == IF closes THEN CumAfterLimit(cumulativeOpenMillis, running)
              ELSE cumulativeOpenMillis
      limit1 == exceeded \/ timeLimitActive
      t1 == IF closes THEN AddMillis(now, timeToCloseValve) ELSE now
      reset == ResetDue(limit1, start1, t1)
  IN /\ pulse' = IF closes THEN "close" ELSE "none"
     /\ now' = t1
     /\ isValveOpen' = IF closes THEN OpenAfterLimit(isValveOpen) ELSE isValveOpen
     /\ lastOpenedAt' = IF closes THEN 0 ELSE lastOpenedAt
     /\ cumulativeOpenMillis' = IF reset THEN 0 ELSE cum1
     /\ timeLimitActive' = IF reset THEN FALSE ELSE limit1
     /\ inhibitStartMillis' = IF reset THEN 0 ELSE start1
     /\ endedSum' = IF reset THEN 0
                    ELSE IF closes THEN TrueAdd(endedSum, openFor) ELSE endedSum
     /\ IF closes
        THEN GhostPass(timeToCloseValve, isValveOpen')
        ELSE UNCHANGED <<openFor, outsideFor>>
     /\ status' = IF reset THEN "Time limits reset after inhibition"
                  ELSE IF exceeded THEN "Time limit exceeded: Valve closed"
                  ELSE ""
     /\ last' = IF reset THEN "reset" ELSE "driverLoop"

\* ------------------------------------------------------------- thermostat
\* Mutant of thermostatHeatCall: both thresholds exclusive.
thermostatHeatCallExclusive(latch, roomTemp, setpoint) ==
  IF latch
  THEN ~(roomTemp > setpoint * 10 + THERMOSTAT_HYSTERESIS)
  ELSE roomTemp < setpoint * 10 - THERMOSTAT_HYSTERESIS

\* Mutant of thermostatHeatCall: a plain comparison with the setpoint, no latch.
thermostatHeatCallNoBand(latch, roomTemp, setpoint) ==
  roomTemp < setpoint * 10

\* Mutant of thermostatHeatCall: the deadband twice as wide.
thermostatHeatCallWide(latch, roomTemp, setpoint) ==
  IF latch
  THEN ~(roomTemp >= setpoint * 10 + 2 * THERMOSTAT_HYSTERESIS)
  ELSE roomTemp <= setpoint * 10 - 2 * THERMOSTAT_HYSTERESIS

\* bool thermostatHeatCall(float roomTemp, float setpoint): the latch after the
\* call, which is also the value returned.  Temperatures are in tenths of a
\* degree; every comparison with NaN is false.
thermostatHeatCall(latch, roomTemp, setpoint) ==
  IF roomTemp = NaN THEN latch
  ELSE IF latch
       THEN ~(roomTemp >= setpoint * 10 + THERMOSTAT_HYSTERESIS)
       ELSE roomTemp <= setpoint * 10 - THERMOSTAT_HYSTERESIS

\* ----------------------------------------------------------- control cycle
\* Mutant of LatchOutsideThermostat: a cycle in another mode clears the latch.
LatchOutsideThermostatCleared(latch) == FALSE

\* the static heatCall of thermostatHeatCall after a cycle in a mode other
\* than THERMOSTAT: only the MODE_THERMOSTAT case calls thermostatHeatCall
\* (main.cpp:115-116)
LatchOutsideThermostat(latch) == latch

\* Mutant of OpenRequestFor: mode OFF does not request close.
OpenRequestForOffKeeps(m, call) ==
  m \in {"MODE_OFF", "MODE_ON"} \/ (m = "MODE_THERMOSTAT" /\ call)

\* the argument of valveOpenRequest in the switch of loop() (main.cpp:102-134)
OpenRequestFor(m, call) ==
  CASE m = "MODE_OFF" -> FALSE
    [] m = "MODE_ON" -> TRUE
    [] m = "MODE_THERMOSTAT" -> call
    [] OTHER -> FALSE

\* the argument of setRoomTempColor in the switch of loop()
RoomTempColorFor(m, call) ==
  CASE m = "MODE_OFF" -> "OFF"
    [] m = "MODE_ON" -> "HEATING"
    [] m = "MODE_THERMOSTAT" -> IF call THEN "HEATING" ELSE "IDLE"
    [] OTHER -> "OFF"

\* the message readTemperature() passes to updateWebStatus when it returns r
\* (ds18b20_sensor.cpp:83, 103), "" when it passes none
SensorStatus(available, r) ==
  IF r # NaN THEN ""
  ELSE IF available THEN "Error: Temperature sensor disconnected"
  ELSE "Error: Temperature sensor not initialized"

\* the later of two messages of one step
Later(first, second) == IF second = "" THEN first ELSE second

\* Mutant of StatusAfterCycle: the default branch reports nothing.
StatusAfterCycleSilent(m, s) == s

\* the message of the cycle: s is what the sensor update and valveOpenRequest
\* left, and the default branch ends with updateWebStatus("Invalid mode")
\* (main.cpp:132)
StatusAfterCycle(m, s) ==
  IF m \in Modes THEN s ELSE "Invalid mode"

\* --------------------------------------------------------------- actions
\* One tick of real time passes between two operations.
Tick ==
  /\ now' = AddMillis(now, 1)
  /\ GhostPass(1, isValveOpen)
  /\ last' = "env"
  /\ pulse' = "none"
  /\ status' = ""
  /\ UNCHANGED <<hour, driverVars, controlVars, ioVars, endedSum, observed>>
  /\ UNCHANGED <<hwVars, wsVars, veto>>
  /\ UNCHANGED <<schedVars, sensorVars>>
  /\ InhibitGhost

\* The wall clock reaches another hour (time passing, or an SNTP adjustment).
SetClock(h) ==
  /\ h # hour
  /\ hour' = h
  /\ outsideFor' = IF IsOperationAllowed(h) THEN 0 ELSE outsideFor
  /\ observed' = FALSE
  /\ last' = "env"
  /\ pulse' = "none"
  /\ status' = ""
  /\ UNCHANGED <<now, driverVars, controlVars, ioVars, openFor, endedSum>>
  /\ UNCHANGED <<hwVars, wsVars, veto>>
  /\ UNCHANGED <<schedVars, sensorVars>>
  /\ InhibitGhost

\* The wall clock reaches another time of day h:m.
SetWallClock(h, m) ==
  /\ (h # hour \/ m # minute)
  /\ hour' = h
  /\ minute' = m
  /\ outsideFor' = IF IsOperationAllowed(h) THEN 0 ELSE outsideFor
  /\ observed' = FALSE
  /\ last' = "env"
  /\ pulse' = "none"
  /\ status' = ""
  /\ UNCHANGED <<now, driverVars, controlVars, ioVars, openFor, endedSum>>
  /\ UNCHANGED <<hwVars, wsVars, veto, beginMinute, endMinute, sensorVars>>
  /\ InhibitGhost

\* The same, under the calling contract of valveDriverLoop ("call from the main
\* loop frequently", valveDriver.cpp:177): the housekeeping has run at least
\* once since the wall clock last changed.
SetClockPolled(h) ==
  /\ observed
  /\ SetClock(h)

CallValveOpenRequest(b) ==
  /\ valveOpenRequest(b)
  /\ status' = RequestStatus(b)
  /\ last' = IF b THEN "requestOpen" ELSE "requestClose"
  /\ UNCHANGED <<hour, controlVars, ioVars, observed>>
  /\ UNCHANGED <<hwVars, wsVars, veto>>
  /\ UNCHANGED <<schedVars, sensorVars>>
  /\ InhibitGhost

CallValveDriverLoop ==
  /\ valveDriverLoop
  /\ observed' = TRUE
  /\ UNCHANGED <<hour, controlVars, ioVars>>
  /\ UNCHANGED <<hwVars, wsVars, veto>>
  /\ UNCHANGED <<schedVars, sensorVars>>
  /\ InhibitGhost

\* Ghost veto after a control cycle that made the request req.
VetoAfter(v, req) ==
  IF req /\ ~AlreadyMatches(req, isValveOpen) /\ ~IsOperationAllowed(hour)
  THEN "denied"
  ELSE IF v = "denied" /\ PulseFor(req) = "open" THEN "healed"
  ELSE IF v = "denied" /\ req THEN "denied"
  ELSE "none"

\* Mutant of TempAfterUpdate: a failed read is stored.
TempAfterUpdateStored(old, due, r) == IF due THEN r ELSE old

\* tempF (and controlState.roomTempF) after the sensor update of loop(): the
\* reading is stored only when the update is due and !isnan(tempC)
\* (main.cpp:81-96)
TempAfterUpdate(old, due, r) == IF due /\ r # NaN THEN r ELSE old

\* What readTemperature() can return: NAN when the sensor was not initialised
\* or is disconnected, a reading otherwise.
SensorReadings == IF tempSensorAvailable THEN Readings ELSE {NaN}

\* void loop(): one control cycle.  The periodic sensor update runs when its
\* interval has elapsed (`due', with reading r), and is skipped otherwise.
Loop(due, r) ==
  LET t == TempAfterUpdate(tempF, due, r)
      call == IF mode = "MODE_THERMOSTAT"
              THEN thermostatHeatCall(heatCall, t, setpointF)
              ELSE LatchOutsideThermostat(heatCall)
  IN /\ tempF' = t
     /\ heatCall' = call
     /\ valveState' = RoomTempColorFor(mode, call)
     /\ valveOpenRequest(OpenRequestFor(mode, call))
     /\ status' = StatusAfterCycle(mode,
                     Later(IF due THEN SensorStatus(tempSensorAvailable, r) ELSE "",
                           RequestStatus(OpenRequestFor(mode, call))))
     /\ veto' = VetoAfter(veto, OpenRequestFor(mode, call))
     /\ last' = "loop"
     /\ UNCHANGED <<hour, mode, setpointF, ioVars, hwVars, wsVars, observed>>
     /\ roomTempF' = TempAfterUpdate(roomTempF, due, r)
     /\ sensed' = IF due THEN (IF r = NaN THEN "failed" ELSE "ok") ELSE sensed
     /\ UNCHANGED schedVars
     /\ InhibitGhost

\* mqttCallback on topic gaslog/set_mode
MqttSetMode(msg) ==
  /\ mode' = CASE msg = "OFF" -> "MODE_OFF"
               [] msg = "ON" -> "MODE_ON"
               [] msg = "THERMOSTAT" -> "MODE_THERMOSTAT"
               [] OTHER -> mode
  /\ last' = IF msg \in {"OFF", "ON", "THERMOSTAT"} THEN "env" ELSE "malformed"
  /\ pulse' = "none"
  /\ status' = ""
  /\ UNCHANGED <<now, hour, driverVars, setpointF, tempF, heatCall, valveState,
                 ioVars, ghostVars>>
  /\ veto' = "none"
  /\ UNCHANGED <<hwVars, wsVars>>
  /\ UNCHANGED <<schedVars, sensorVars>>
  /\ InhibitGhost

\* mqttCallback on topic gaslog/set_setpoint
MqttSetSetpoint(sp) ==
  /\ setpointF' = sp
  /\ last' = "env"
  /\ pulse' = "none"
  /\ status' = ""
  /\ UNCHANGED <<now, hour, driverVars, mode, tempF, heatCall, valveState, ioVars, ghostVars>>
  /\ veto' = "none"
  /\ UNCHANGED <<hwVars, wsVars>>
  /\ UNCHANGED <<schedVars, sensorVars>>
  /\ InhibitGhost

\* the text is a decimal integer and nothing else
IsIntegerText(msg) == msg \in {"69", "70"}

\* String::toInt(): the integer the text starts with, 0 when it starts with none
ToInt(msg) ==
  CASE msg = "69" -> 69
    [] msg = "70" -> 70
    [] msg = "70.5" -> 70
    [] OTHER -> 0

\* mqttCallback on topic gaslog/set_setpoint with the payload msg:
\* controlState.setpointF = msg.toInt() (mqttProcessor.cpp:120-123)
MqttSetpointPayload(msg) ==
  /\ setpointF' = ToInt(msg)
  /\ last' = IF IsIntegerText(msg) THEN "env" ELSE "malformed"
  /\ pulse' = "none"
  /\ status' = ""
  /\ veto' = "none"
  /\ UNCHANGED <<now, hour, driverVars, mode, tempF, heatCall, valveState, ioVars,
                 hwVars, wsVars, schedVars, sensorVars, ghostVars>>
  /\ InhibitGhost

\* doc["value"].is<int>() for the JSON value v
JsonIsInt(v) == v \in {"69", "70"}

\* doc["value"].as<int>() for an integer JSON value v
JsonAsInt(v) == IF v = "69" THEN 69 ELSE 70

\* onWsEvent, message {"type":"setpoint","value":v} (webSocket.cpp:175-182)
WsSetpoint(v) ==
  /\ setpointF' = IF JsonIsInt(v) THEN JsonAsInt(v) ELSE setpointF
  /\ last' = IF JsonIsInt(v) THEN "env" ELSE "malformed"
  /\ pulse' = "none"
  /\ status' = ""
  /\ veto' = "none"
  /\ UNCHANGED <<now, hour, driverVars, mode, tempF, heatCall, valveState, ioVars,
                 hwVars, wsVars, schedVars, sensorVars, ghostVars>>
  /\ InhibitGhost

\* String::toLowerCase() on the values of a mode message
ToLowerCase(value) ==
  CASE value = "Automatic" -> "automatic"
    [] value = "MANUAL" -> "manual"
    [] OTHER -> value

\* onWsEvent, message {"type":"mode","value":value} (webSocket.cpp:183-227)
WsMode(value) ==
  LET valueLower == ToLowerCase(value)
      accepted == valueLower \in {"automatic", "manual"}
      refused == valueLower = "automatic" /\ ~tempSensorAvailable
  IN /\ autoMode' = IF valueLower = "automatic" /\ ~refused THEN TRUE
                     ELSE IF valueLower = "manual" THEN FALSE
                     ELSE autoMode
     /\ valveState' = IF ~accepted \/ refused THEN valveState
                       ELSE IF ~powerOn THEN "OFF"
                       ELSE IF valueLower = "automatic" THEN "IDLE"
                       ELSE "HEATING"
     /\ status' = IF ~accepted THEN ""
                   ELSE IF refused
                   THEN "Error: Automatic mode requires temperature sensor"
                   ELSE IF valueLower = "automatic"
                   THEN (IF powerOn THEN "Mode: Automatic - Idle"
                         ELSE "Mode: Automatic - System Off")
                   ELSE (IF powerOn THEN "Mode: Manual - Heating"
                         ELSE "Mode: Manual - System Off")
     /\ last' = IF accepted THEN "env" ELSE "malformed"
     /\ pulse' = "none"
     /\ veto' = "none"
     /\ UNCHANGED <<now, hour, driverVars, mode, setpointF, tempF, heatCall, ioVars,
                    hwVars, powerOn, schedVars, sensorVars, ghostVars>>
     /\ InhibitGhost

\* the fauxmo onSetState callback of setup()
AlexaSetState(state) ==
  /\ mode' = IF state THEN "MODE_ON" ELSE "MODE_OFF"
  /\ valveState' = IF state THEN "HEATING" ELSE "OFF"
  /\ status' = IF state THEN "Heating (Alexa)" ELSE "System Off (Alexa)"
  /\ last' = "env"
  /\ pulse' = "none"
  /\ UNCHANGED <<now, hour, driverVars, setpointF, tempF, heatCall, ioVars, ghostVars>>
  /\ veto' = "none"
  /\ UNCHANGED <<hwVars, wsVars>>
  /\ UNCHANGED <<schedVars, sensorVars>>
  /\ InhibitGhost

\* onWsEvent, message {"type":"power","value":value} (webSocket.cpp:149-174)
WsPower(value) ==
  /\ powerOn' = CASE value = "ON" -> TRUE
                  [] value = "OFF" -> FALSE
                  [] OTHER -> powerOn
  /\ valveState' = CASE value = "ON" -> (IF autoMode THEN "IDLE" ELSE "HEATING")
                     [] value = "OFF" -> "OFF"
                     [] OTHER -> valveState
  /\ status' = CASE value = "ON" -> (IF autoMode
                                     THEN "System Powered On - Automatic Mode"
                                     ELSE "Manual Mode: Heating")
                 [] value = "OFF" -> "System Powered Off"
                 [] OTHER -> ""
  /\ veto' = "none"
  /\ last' = "env"
  /\ pulse' = "none"
  /\ UNCHANGED <<now, hour, driverVars, mode, setpointF, tempF, heatCall, ioVars,
                 hwVars, autoMode, ghostVars>>
  /\ UNCHANGED <<schedVars, sensorVars>>
  /\ InhibitGhost

\* setup() run again after a reset or power cycle: valveDriverBegin(),
\* initSensor() finding the sensor or not, controlState at its initial values.
Setup(available) ==
  /\ valveDriverBegin
  /\ tempSensorAvailable' = available
  /\ status' = IF available
               THEN "Temperature sensor initialized successfully"
               ELSE "Sensor failed"
  /\ mode' = "MODE_OFF"
  /\ setpointF' = 70
  /\ tempF' = NaN
  /\ heatCall' = FALSE
  /\ valveState' = "OFF"
  /\ powerOn' = FALSE
  /\ autoMode' = TRUE
  /\ calls' = <<>>
  /\ veto' = "none"
  /\ openFor' = 0
  /\ endedSum' = 0
  /\ observed' = FALSE
  /\ last' = "init"
  /\ UNCHANGED <<hour, outsideFor>>
  /\ roomTempF' = 0
  /\ sensed' = "none"
  /\ UNCHANGED schedVars
  /\ InhibitGhost

\* A control cycle whose valve request drives no pulse.
CycleNoPulse(due, r) ==
  /\ inFlight = "none"
  /\ PulseFor(OpenRequestFor(mode,
        IF mode = "MODE_THERMOSTAT"
        THEN thermostatHeatCall(heatCall, TempAfterUpdate(tempF, due, r), setpointF)
        ELSE LatchOutsideThermostat(heatCall))) = "none"
  /\ Loop(due, r)

\* Mutant of OpenAtPulseStart: the logical state is written before the pulse.
OpenAtPulseStartEarly(open, p) == p = "open"

\* isValveOpen while the pulse p is driven: openValve()/closeValve() is called
\* before isValveOpen is assigned (valveDriver.cpp:341-342, 355-356)
OpenAtPulseStart(open, p) == open

\* A control cycle up to the wait of openValve()/closeValve(): the sensor
\* update, the switch, valveOpenRequest up to the start of the pulse, with the
\* ADC returning the readings s.  isValveOpen is not written yet.
LoopStart(due, r, s) ==
  LET t == TempAfterUpdate(tempF, due, r)
      call == IF mode = "MODE_THERMOSTAT"
              THEN thermostatHeatCall(heatCall, t, setpointF)
              ELSE LatchOutsideThermostat(heatCall)
      req == OpenRequestFor(mode, call)
      p == PulseFor(req)
      d == readVoltageDutyCycle(s)
  IN /\ inFlight = "none"
     /\ p # "none"
     /\ tempF' = t
     /\ heatCall' = call
     /\ valveState' = RoomTempColorFor(mode, call)
     /\ cumulativeOpenMillis' =
          IF p = "close"
          THEN Accumulated(cumulativeOpenMillis, isValveOpen, lastOpenedAt, now)
          ELSE cumulativeOpenMillis
     /\ lastOpenedAt' = IF p = "close" THEN 0 ELSE lastOpenedAt
     /\ samples' = s
     /\ duty' = d
     /\ in1' = IF p = "open" THEN "LOW" ELSE in1
     /\ in2' = IF p = "close" THEN "LOW" ELSE in2
     /\ ch1' = IF p = "close" THEN d ELSE ch1
     /\ ch2' = IF p = "open" THEN d ELSE ch2
     /\ inFlight' = p
     /\ startTime' = now
     /\ status' = Later(IF due THEN SensorStatus(tempSensorAvailable, r) ELSE "",
                        RequestStatus(req))
     /\ veto' = VetoAfter(veto, req)
     /\ endedSum' = IF p = "close" THEN TrueAdd(endedSum, openFor) ELSE endedSum
     /\ pulse' = "none"
     /\ last' = "pulseStart"
     /\ isValveOpen' = OpenAtPulseStart(isValveOpen, p)
     /\ UNCHANGED <<now, hour, timeLimitActive, inhibitStartMillis, mode,
                    setpointF, tempSensorAvailable, calls, wsVars, openFor, outsideFor,
                    observed>>
     /\ roomTempF' = TempAfterUpdate(roomTempF, due, r)
     /\ sensed' = IF due THEN (IF r = NaN THEN "failed" ELSE "ok") ELSE sensed
     /\ UNCHANGED schedVars
     /\ InhibitGhost

\* One tick passes in the wait loop of openValve()/closeValve():
\* millis() - startTime is still below the travel time, yield() is called.
PulseWait ==
  /\ inFlight # "none"
  /\ ~PulseDone(now, startTime, PulseDuration(inFlight))
  /\ Tick

\* The wait is over: deenergizeValve(), then the rest of valveOpenRequest and
\* of the cycle.
PulseEnd ==
  /\ inFlight # "none"
  /\ PulseDone(now, startTime, PulseDuration(inFlight))
  /\ in1' = "LOW"
  /\ in2' = "LOW"
  /\ ch1' = DutyAfterPulse(ch1)
  /\ ch2' = DutyAfterPulse(ch2)
  /\ inFlight' = "none"
  /\ startTime' = 0
  /\ isValveOpen' = (inFlight = "open")
  /\ lastOpenedAt' = IF inFlight = "open" THEN now ELSE lastOpenedAt
  /\ openFor' = 0
  /\ status' = StatusAfterCycle(mode, "")
  /\ pulse' = inFlight
  /\ last' = "loop"
  /\ UNCHANGED <<now, hour, cumulativeOpenMillis, timeLimitActive, inhibitStartMillis,
                 controlVars, ioVars, wsVars, veto, endedSum, outsideFor, observed>>
  /\ UNCHANGED <<schedVars, sensorVars>>
  /\ InhibitGhost

\* controlState.mode is assigned the value m, by whichever context writes it
WriteMode(m) ==
  /\ mode' = m
  /\ last' = "env"
  /\ pulse' = "none"
  /\ status' = ""
  /\ UNCHANGED <<now, hour, driverVars, setpointF, tempF, heatCall, valveState,
                 ioVars, ghostVars>>
  /\ veto' = "none"
  /\ UNCHANGED <<hwVars, wsVars>>
  /\ UNCHANGED <<schedVars, sensorVars>>
  /\ InhibitGhost

\* thermostatHeatCall(roomTemp, setpoint) called directly; the first calls
\* are recorded
CallThermostatHeatCall(roomTemp, setpoint) ==
  LET ret == thermostatHeatCall(heatCall, roomTemp, setpoint)
  IN /\ Len(calls) < Len(ExampleTemps)
     /\ heatCall' = ret
     /\ calls' = Append(calls, [roomTemp |-> roomTemp, setpoint |-> setpoint,
                                ret |-> ret])
     /\ last' = "heatCall"
     /\ pulse' = "none"
     /\ status' = ""
     /\ UNCHANGED <<now, hour, driverVars, mode, setpointF, tempF, valveState, tempSensorAvailable, samples, duty, ghostVars>>
     /\ UNCHANGED <<hwVars, wsVars, veto>>
     /\ UNCHANGED <<schedVars, sensorVars>>
     /\ InhibitGhost

\* readVoltageDutyCycle() called with the ADC returning the readings s
CallReadVoltageDutyCycle(s) ==
  /\ samples' = s
  /\ duty' = readVoltageDutyCycle(s)
  /\ last' = "readDuty"
  /\ pulse' = "none"
  /\ status' = ""
  /\ UNCHANGED <<now, hour, driverVars, controlVars, tempSensorAvailable,
                 calls, ghostVars>>
  /\ UNCHANGED <<hwVars, wsVars, veto>>
  /\ UNCHANGED <<schedVars, sensorVars>>
  /\ InhibitGhost

\* ------------------------------------------------------------------ init
\* The state after setup(): valveDriverBegin() has driven the closing pulse.
\* The minute parts of the window are those the build was configured with.
InitBuild ==
  /\ now = timeToCloseValve
  /\ hour \in ClockHours
  /\ isValveOpen = FALSE
  /\ cumulativeOpenMillis = 0
  /\ lastOpenedAt = 0
  /\ timeLimitActive = FALSE
  /\ inhibitStartMillis = 0
  /\ mode = "MODE_OFF"
  /\ setpointF = 70
  /\ tempF = NaN
  /\ heatCall = FALSE
  /\ valveState = "OFF"
  /\ pulse = "close"
  /\ last = "init"
  /\ tempSensorAvailable \in BOOLEAN
  /\ status = IF tempSensorAvailable
              THEN "Temperature sensor initialized successfully"
              ELSE "Sensor failed"
  /\ samples = [i \in 1..N |-> 900]
  /\ duty = readVoltageDutyCycle(samples)
  /\ calls = <<>>
  /\ inFlight = "none"
  /\ startTime = 0
  /\ in1 = "LOW"
  /\ in2 = "LOW"
  /\ ch1 = 0
  /\ ch2 = 0
  /\ powerOn = FALSE
  /\ autoMode = TRUE
  /\ veto = "none"
  /\ minute = 0
  /\ roomTempF = 0
  /\ sensed = "none"
  /\ inhibitedFor = 0
  /\ openFor = 0
  /\ endedSum = 0
  /\ outsideFor = 0
  /\ observed = FALSE

\* The state after setup() of the build as configured.
Init ==
  /\ InitBuild
  /\ beginMinute = OPERATION_ALLOWED_BEGIN_MINUTE
  /\ endMinute = OPERATION_ALLOWED_END_MINUTE

\* The running program: the control loop, the command handlers, time.
Next ==
  \/ Tick
  \/ \E h \in ClockHours : SetClock(h)
  \/ \E due \in BOOLEAN, r \in SensorReadings : Loop(due, r)
  \/ \E msg \in MqttModes : MqttSetMode(msg)
  \/ \E sp \in Setpoints : MqttSetSetpoint(sp)
  \/ \E state \in BOOLEAN : AlexaSetState(state)

Spec == Init /\ [][Next]_vars

\* The program with no temperature sensor attached (readTemperature() returns
\* NAN), commanded through Alexa only.  Every behaviour of it is one of Spec.
NextManual ==
  \/ Tick
  \/ \E h \in ClockHours : SetClock(h)
  \/ Loop(TRUE, NaN)
  \/ \E state \in BOOLEAN : AlexaSetState(state)

\* loop() is called forever by the Arduino core, time passes, the clock runs.
FairSpec ==
  /\ Init /\ [][NextManual]_vars
  /\ WF_vars(Tick)
  /\ WF_vars(\E h \in ClockHours : SetClock(h))
  /\ WF_vars(Loop(TRUE, NaN))

\* The driver does not read the temperature sensor: its specifications start
\* from the boot with the sensor found.
InitDriver == Init /\ tempSensorAvailable

\* The driver in a build with any of the configurable minute parts of the
\* window, the wall clock showing hours and minutes.
InitSchedule ==
  /\ InitBuild
  /\ tempSensorAvailable
  /\ beginMinute \in ConfigMinutes
  /\ endMinute \in ConfigMinutes

NextSchedule ==
  \/ \E h \in ClockHours, m \in ClockMinutes : SetWallClock(h, m)
  \/ \E b \in BOOLEAN : CallValveOpenRequest(b)

SpecSchedule == InitSchedule /\ [][NextSchedule]_vars

\* The driver under any sequence of calls.
NextDriver ==
  \/ Tick
  \/ \E h \in ClockHours : SetClock(h)
  \/ \E b \in BOOLEAN : CallValveOpenRequest(b)
  \/ CallValveDriverLoop

SpecDriver == InitDriver /\ [][NextDriver]_vars

\* The driver called as documented: valveDriverLoop polls the clock.
NextPolled ==
  \/ Tick
  \/ \E h \in ClockHours : SetClockPolled(h)
  \/ \E b \in BOOLEAN : CallValveOpenRequest(b)
  \/ CallValveDriverLoop

SpecPolled == InitDriver /\ [][NextPolled]_vars

\* The control loop commanded over MQTT, the wall clock running.
NextMqtt ==
  \/ \E h \in ClockHours : SetClock(h)
  \/ \E due \in BOOLEAN, r \in SensorReadings : Loop(due, r)
  \/ \E msg \in MqttModes : MqttSetMode(msg)
  \/ \E sp \in Setpoints : MqttSetSetpoint(sp)

SpecMqtt == Init /\ [][NextMqtt]_vars

\* The control loop with the command handlers of both channels receiving
\* accepted and other values.
NextCommands ==
  \/ \E due \in BOOLEAN, r \in SensorReadings : Loop(due, r)
  \/ \E msg \in MqttModes : MqttSetMode(msg)
  \/ \E msg \in MqttSetpoints : MqttSetpointPayload(msg)
  \/ \E v \in WsSetpoints : WsSetpoint(v)
  \/ \E value \in WsModes : WsMode(value)
  \/ \E value \in {"ON", "OFF"} : WsPower(value)

SpecCommands == Init /\ [][NextCommands]_vars

\* The control cycle for every value controlState.mode can hold.
NextCycle ==
  \/ \E h \in ClockHours : SetClock(h)
  \/ \E m \in ModeValues : WriteMode(m)
  \/ \E due \in BOOLEAN, r \in SensorReadings : Loop(due, r)

SpecCycle == Init /\ [][NextCycle]_vars

\* thermostatHeatCall under any sequence of calls.
NextThermostat ==
  \E roomTemp \in RoomTemps, setpoint \in Setpoints :
    CallThermostatHeatCall(roomTemp, setpoint)

SpecThermostat == Init /\ [][NextThermostat]_vars

\* readVoltageDutyCycle under any readings of the supply.
NextDuty ==
  \E s \in [1..N -> SupplySamples] : CallReadVoltageDutyCycle(s)

SpecDuty == Init /\ [][NextDuty]_vars

\* The program with reboots.
NextBoot ==
  \/ NextManual
  \/ \E available \in BOOLEAN : Setup(available)

SpecBoot == Init /\ [][NextBoot]_vars

\* The control loop with the pulse wait as steps of its own, and the
\* handlers of the other tasks running meanwhile.
NextPulse ==
  \/ PulseWait
  \/ \E h \in ClockHours : SetClock(h)
  \/ CycleNoPulse(TRUE, NaN)
  \/ \E s \in SteadySupplies : LoopStart(TRUE, NaN, s)
  \/ PulseEnd
  \/ \E state \in BOOLEAN : AlexaSetState(state)
  \/ \E value \in {"ON", "OFF"} : WsPower(value)

SpecPulse == Init /\ [][NextPulse]_vars

\* The same with the millisecond clock advancing during a wait and the code
\* after the wait running.
FairPulse ==
  /\ Init /\ [][NextPulse]_vars
  /\ WF_vars(PulseWait)
  /\ WF_vars(PulseEnd)

\* a reading below the hysteresis band and one above it
ColdAndWarm == {r \in Readings : r # NaN /\ r # ExampleSetpoint * 10}

\* The control loop commanded over MQTT with the sensor found at boot, time
\* passing and the sensor update due on every cycle.
NextTimed ==
  \/ Tick
  \/ \E h \in ClockHours : SetClock(h)
  \/ \E r \in ColdAndWarm : Loop(TRUE, r)
  \/ \E msg \in MqttModes : MqttSetMode(msg)

SpecTimed == InitDriver /\ [][NextTimed]_vars

TypeOK ==
  /\ now \in 0..(MillisWrap - 1)
  /\ hour \in ClockHours
  /\ isValveOpen \in BOOLEAN
  /\ cumulativeOpenMillis \in 0..(MillisWrap - 1)
  /\ lastOpenedAt \in 0..(MillisWrap - 1)
  /\ timeLimitActive \in BOOLEAN
  /\ inhibitStartMillis \in 0..(MillisWrap - 1)
  /\ mode \in ModeValues
  /\ setpointF \in Int
  /\ tempF \in Readings
  /\ heatCall \in BOOLEAN
  /\ valveState \in {"OFF", "IDLE", "HEATING"}
  /\ pulse \in {"none", "open", "close"}
  /\ openFor \in 0..TrueCap
  /\ endedSum \in 0..TrueCap
  /\ outsideFor \in 0..INHIBIT_RESET_MS
  /\ observed \in BOOLEAN
  /\ tempSensorAvailable \in BOOLEAN
  /\ status \in STRING
  /\ samples \in [1..N -> SupplySamples]
  /\ duty \in 0..255
  /\ calls \in Seq([roomTemp : RoomTemps, setpoint : Setpoints, ret : BOOLEAN])
  /\ inFlight \in {"none", "open", "close"}
  /\ startTime \in 0..(MillisWrap - 1)
  /\ in1 \in {"LOW", "HIGH"}
  /\ in2 \in {"LOW", "HIGH"}
  /\ ch1 \in 0..255
  /\ ch2 \in 0..255
  /\ powerOn \in BOOLEAN
  /\ autoMode \in BOOLEAN
  /\ veto \in {"none", "denied", "healed"}
  /\ minute \in 0..59
  /\ beginMinute \in 0..59
  /\ endMinute \in 0..59
  /\ roomTempF \in Readings \cup {0}
  /\ sensed \in {"none", "ok", "failed"}
  /\ inhibitedFor \in 0..MillisWrap

\* ------------------------------------------------------------------ claims

\* C1: budget conservation.  As long as the true sum of the ended open
\* intervals is representable in the counter, cumulativeOpenMillis equals it:
\* every ended interval is added exactly once, none is dropped.
C1_BudgetConservation ==
  endedSum < MillisWrap => cumulativeOpenMillis = endedSum

\* C2: schedule veto.  After valveOpenRequest(true) called outside the allowed
\* window, no opening pulse was driven and the valve is closed.
C2_ScheduleVeto ==
  (last = "requestOpen" /\ ~IsOperationAllowed(hour))
    => (pulse # "open" /\ ~isValveOpen)

\* C3: forced close at the window boundary.  A valve that is open outside the
\* allowed window is closed by the control cycles that follow.
C3_ForcedCloseOutsideWindow ==
  (isValveOpen /\ ~IsOperationAllowed(hour)) ~> ~isValveOpen

\* C4: runtime budget enforcement.  Once the accumulated open time plus the
\* running open interval has reached MAX_TOTAL_OPEN_MS with the valve open,
\* the limit eventually becomes active and the valve is closed.
C4_BudgetEnforced ==
  (isValveOpen /\ cumulativeOpenMillis + openFor >= MAX_TOTAL_OPEN_MS)
    ~> (timeLimitActive /\ ~isValveOpen)

\* C5: while the limit is active the valve is closed, and the last step, if it
\* was an open request, drove no opening pulse.
C5_LimitImpliesClosed ==
  timeLimitActive => (~isValveOpen /\ pulse # "open")

\* an open request made in permitted hours was denied because the limit is active
C5_Witness ==
  /\ timeLimitActive
  /\ last = "requestOpen"
  /\ IsOperationAllowed(hour)
  /\ pulse = "none"
  /\ ~isValveOpen

C7_ResetEventually ==
  (timeLimitActive /\ outsideFor >= INHIBIT_RESET_MS) ~> ~timeLimitActive

\* C8: the limit flag is only ever set once the accumulated open time has
\* reached the budget.
C8_LimitImpliesBudgetSpent ==
  timeLimitActive => cumulativeOpenMillis >= MAX_TOTAL_OPEN_MS

\* valveDriverLoop has just closed the valve and set the limit
C8_Witness ==
  /\ timeLimitActive
  /\ last = "driverLoop"
  /\ pulse = "close"

\* C9: a close request is always granted.  valveOpenRequest(false) on an open
\* valve drives the closing pulse whatever the schedule, the limit and the
\* total are, adds the just-ended open interval to cumulativeOpenMillis and
\* leaves isValveOpen = false and lastOpenedAt = 0.
C9_CloseAlwaysGranted ==
  [][ (last' = "requestClose" /\ isValveOpen) =>
        /\ pulse' = "close"
        /\ ~isValveOpen'
        /\ lastOpenedAt' = 0
        /\ (openFor < TrueCap =>
              cumulativeOpenMillis' = AddMillis(cumulativeOpenMillis, openFor))
    ]_vars

\* C10: every opening passes the safety checks.  A step drives an opening
\* pulse only as valveOpenRequest(true), taken in permitted hours with the
\* limit inactive and the accumulated open time below the budget.
C10_OpeningPassesChecks ==
  [][ (pulse' = "open" \/ (~isValveOpen /\ isValveOpen')) =>
        /\ last' = "requestOpen"
        /\ IsOperationAllowed(hour)
        /\ ~timeLimitActive
        /\ cumulativeOpenMillis < MAX_TOTAL_OPEN_MS
    ]_vars

\* an open request has just opened the valve
C10_Witness ==
  /\ last = "requestOpen"
  /\ pulse = "open"
  /\ isValveOpen
  /\ lastOpenedAt = now

\* C11: truthful visible state.  After a control cycle the visible valveState
\* is HEATING only if the valve is actually open.
C11_TruthfulVisibleState ==
  (last = "loop" /\ valveState = "HEATING") => isValveOpen

\* C12: without a temperature source (tempSensorAvailable = false) the mode
\* never becomes THERMOSTAT, whichever channel the command comes through.
C12_ThermostatRejectedWithoutSensor ==
  ~tempSensorAvailable => mode # "MODE_THERMOSTAT"

\* C13: a control cycle in THERMOSTAT mode that has no temperature (tempF is
\* still NAN) sets the mode to OFF, leaves the valve closed and passes a
\* message to updateWebStatus.
C13_NoTemperatureForcesOff ==
  [][ (last' = "loop" /\ mode = "MODE_THERMOSTAT" /\ tempF' = NaN) =>
        (mode' = "MODE_OFF" /\ ~isValveOpen' /\ status' # "")
    ]_vars

\* C14: thermostatHeatCall is never invoked with NaN.  A control cycle that
\* evaluates the thermostat (mode THERMOSTAT) passes it a valid tempF.
C14_HeatCallNeverNaN ==
  [][ (last' = "loop" /\ mode = "MODE_THERMOSTAT") => tempF' # NaN ]_vars

\* C15: after a control cycle that read mode OFF the valve is closed and the
\* visible valveState is OFF.
C15_OffCycleCloses ==
  (last = "loop" /\ mode = "MODE_OFF") => (~isValveOpen /\ valveState = "OFF")

\* a cycle in mode OFF has just closed a valve that was open
C15_Witness ==
  /\ last = "loop"
  /\ mode = "MODE_OFF"
  /\ pulse = "close"
  /\ ~isValveOpen
  /\ valveState = "OFF"

\* C16: after a control cycle that read a mode other than OFF, THERMOSTAT and
\* MANUAL ON the valve is closed, the visible valveState is OFF and the status
\* is "Invalid mode".
C16_InvalidModeFailsSafe ==
  (last = "loop" /\ mode \notin Modes) =>
    (~isValveOpen /\ valveState = "OFF" /\ status = "Invalid mode")

\* a cycle with an invalid mode has just closed a valve that was open
C16_Witness ==
  /\ last = "loop"
  /\ mode = "MODE_INVALID"
  /\ pulse = "close"
  /\ ~isValveOpen
  /\ status = "Invalid mode"

\* the latch before the i-th recorded call: false before the first
LatchBefore(i) == IF i = 1 THEN FALSE ELSE calls[i - 1].ret

InBand(roomTemp, S) ==
  /\ roomTemp > S * 10 - THERMOSTAT_HYSTERESIS
  /\ roomTemp < S * 10 + THERMOSTAT_HYSTERESIS

\* C18: anti-chatter.  In any run of consecutive calls with one setpoint whose
\* temperatures all lie strictly inside the deadband, every call returns what
\* the first call of the run returned.
C18_AntiChatter ==
  \A S \in Setpoints : \A i, j \in 1..Len(calls) :
    (i < j /\ \A k \in i..j : calls[k].setpoint = S /\ InBand(calls[k].roomTemp, S))
      => calls[j].ret = calls[i].ret

\* heat was called on the lower threshold, then the temperature moved up and
\* down inside the deadband and the heat call stayed
C18_Witness ==
  /\ Len(calls) = 4
  /\ \A k \in 1..4 : calls[k].setpoint = 70 /\ calls[k].ret
  /\ calls[1].roomTemp = 698
  /\ calls[2].roomTemp = 699
  /\ calls[3].roomTemp = 700
  /\ calls[4].roomTemp = 699

\* the calls made so far are the worked example: ExampleTemps in order, each
\* with ExampleSetpoint, starting from the initial latch
ExampleCalled ==
  /\ Len(calls) = Len(ExampleTemps)
  /\ \A i \in 1..Len(calls) :
       calls[i].setpoint = ExampleSetpoint /\ calls[i].roomTemp = ExampleTemps[i]

\* C19: with setpoint 70 the room temperatures 69.0, 69.9, 70.3, 70.5 return
\* true, true, false, false.
C19_WorkedExample ==
  ExampleCalled => [i \in 1..Len(calls) |-> calls[i].ret] = <<TRUE, TRUE, FALSE, FALSE>>

\* the worked example has been called and has ended with the heat call off
C19_Witness ==
  ExampleCalled /\ calls[1].ret /\ ~calls[Len(calls)].ret /\ ~heatCall

\* C20: duty fail-safe.  When every supply sample reads 0 mV,
\* readVoltageDutyCycle returns duty 0.
C20_DutyFailSafe ==
  (last = "readDuty" /\ \A i \in 1..N : samples[i] = 0) => duty = 0

\* the averaged supply reading of the last readVoltageDutyCycle()
AvgMilliVolts == SumTo(samples, N) \div N

\* C21: duty computation.  For a positive averaged reading the duty lies in
\* 0..255, is 255 when the supply voltage is at or below valveVoltage, and
\* otherwise is 255 * valveVoltage / supplyVoltage rounded to the nearest
\* integer (it differs from the exact value by at most one half).
C21_DutyComputation ==
  (last = "readDuty" /\ AvgMilliVolts > 0) =>
    LET supply == AvgMilliVolts * voltageDividerRatio
        target == valveVoltage * 100
        diff == duty * supply - 255 * target
    IN /\ duty \in 0..255
       /\ supply <= target => duty = 255
       /\ supply > target => (2 * diff <= supply /\ -2 * diff <= supply)

\* a supply above the valve voltage has given a duty strictly between the ends
C21_Witness ==
  /\ last = "readDuty"
  /\ AvgMilliVolts > 0
  /\ duty > 0
  /\ duty < 255

\* C22: fail-safe boot.  After setup() the closing pulse has been driven, the
\* bridge is idle, the valve is logically closed and the safety counters are
\* zero, whatever the state was before.
C22_FailSafeBoot ==
  last = "init" =>
    /\ pulse = "close"
    /\ inFlight = "none"
    /\ ch1 = 0
    /\ ch2 = 0
    /\ ~isValveOpen
    /\ cumulativeOpenMillis = 0
    /\ lastOpenedAt = 0
    /\ ~timeLimitActive
    /\ inhibitStartMillis = 0

\* the controller has booted again after running outside the allowed window
C22_Witness ==
  /\ last = "init"
  /\ outsideFor > 0
  /\ pulse = "close"
  /\ ~isValveOpen

\* C23: idempotence of the close request.  valveOpenRequest(false) on an open
\* valve drives one closing pulse; no step other than an open request opens
\* the valve again; valveOpenRequest(false) on the closed valve drives no pulse
\* and changes nothing.
C23_CloseIdempotent ==
  [][ /\ (last' = "requestClose" /\ isValveOpen) => (pulse' = "close" /\ ~isValveOpen')
      /\ (~isValveOpen /\ isValveOpen') => last' = "requestOpen"
      /\ (last' = "requestClose" /\ ~isValveOpen) =>
           (pulse' = "none" /\ now' = now /\ UNCHANGED driverVars)
    ]_vars

\* a close request found the valve already closed by an earlier close request
C23_Witness ==
  /\ last = "requestClose"
  /\ pulse = "none"
  /\ ~isValveOpen
  /\ ~timeLimitActive
  /\ endedSum > 0

\* C24: a request equal to the current logical state is a no-op: it drives no
\* pulse and leaves the five driver variables unchanged.
C24_SameRequestNoOp ==
  [][ ((last' = "requestOpen" /\ isValveOpen) \/ (last' = "requestClose" /\ ~isValveOpen)) =>
        (pulse' = "none" /\ now' = now /\ UNCHANGED driverVars)
    ]_vars

\* an open request found the valve already open
C24_Witness ==
  /\ last = "requestOpen"
  /\ pulse = "none"
  /\ isValveOpen
  /\ lastOpenedAt # now

\* C25: outside a pulse both drive lines are LOW and both PWM channels are 0.
C25_IdleOutsidePulses ==
  inFlight = "none" => (in1 = "LOW" /\ in2 = "LOW" /\ ch1 = 0 /\ ch2 = 0)

\* an opening pulse has just ended and the bridge is idle again
C25_Witness ==
  /\ inFlight = "none"
  /\ last = "loop"
  /\ pulse = "open"
  /\ isValveOpen
  /\ ch2 = 0

\* C26: no cancellation or overlap.  A pulse in progress ends only when its
\* travel time has elapsed, and ends de-energized; until then no step changes
\* the pulse, its start or the PWM outputs.
C26_NoCancellationNoOverlap ==
  [][ inFlight # "none" =>
        /\ inFlight' = "none" =>
             /\ Elapsed(now, startTime) >=
                  (IF inFlight = "open" THEN timeToOpenValve ELSE timeToCloseValve)
             /\ ch1' = 0
             /\ ch2' = 0
        /\ inFlight' # "none" =>
             (inFlight' = inFlight /\ startTime' = startTime /\ ch1' = ch1 /\ ch2' = ch2)
    ]_vars

\* a closing pulse has run to its end although the mode was set to MANUAL ON
\* while it was in progress
C26_Witness ==
  /\ last = "loop"
  /\ pulse = "close"
  /\ inFlight = "none"
  /\ ~isValveOpen
  /\ mode = "MODE_ON"

\* a control cycle can start: the sensor update and the switch of loop()
ControlCycle ==
  \/ CycleNoPulse(TRUE, NaN)
  \/ \E s \in SteadySupplies : LoopStart(TRUE, NaN, s)

\* C27: the pulse wait does not block.  While a pulse is in progress the
\* control loop can still run its sensor update and its other duties.
C27_PulseDoesNotBlock ==
  inFlight # "none" => ENABLED ControlCycle

\* C28: every control cycle runs the safety housekeeping: after a cycle
\* valveDriverLoop has run since the wall clock last changed.
C28_CycleRunsHousekeeping ==
  [][ last' = "loop" => observed' ]_vars

\* C29: single mutator.  While a control cycle is in progress (it is waiting in
\* a pulse) no step changes the mode, the setpoint or the visible valveState.
C29_SingleMutator ==
  [][ (inFlight # "none" /\ inFlight' # "none") =>
        UNCHANGED <<mode, setpointF, valveState>> ]_vars

\* C30: self-healing after a veto.  When a cycle's open request was denied by
\* the schedule and no command has arrived since, the first cycle that still
\* wants the valve open and finds the window open, the limit inactive and the
\* total below the budget opens the valve.
C30_SelfHealing ==
  [][ ( /\ last' = "loop"
        /\ veto = "denied"
        /\ (mode = "MODE_ON" \/ (mode = "MODE_THERMOSTAT" /\ heatCall'))
        /\ hour >= OPERATION_ALLOWED_BEGIN_HOUR
        /\ hour < OPERATION_ALLOWED_END_HOUR
        /\ ~timeLimitActive
        /\ cumulativeOpenMillis < MAX_TOTAL_OPEN_MS ) =>
        (pulse' = "open" /\ isValveOpen' /\ veto' = "healed")
    ]_vars

\* a cycle has opened the valve after an earlier cycle was denied by the schedule
C30_Witness ==
  /\ veto = "healed"
  /\ last = "loop"
  /\ pulse = "open"
  /\ isValveOpen

\* C31: isValveOpen is written only after the pulse has completed: during an
\* opening pulse it is still false, during a closing pulse it is still true.
C31_StateUpdatedAfterPulse ==
  /\ inFlight = "open" => ~isValveOpen
  /\ inFlight = "close" => isValveOpen

\* a closing pulse has run for its travel time and the valve still counts as open
C31_Witness ==
  /\ inFlight = "close"
  /\ isValveOpen
  /\ Elapsed(now, startTime) >= timeToCloseValve

\* C33: no unbounded wait.  With the millisecond clock advancing, every pulse
\* wait ends: a pulse in progress is eventually over.
C33_PulseWaitEnds ==
  (inFlight # "none") ~> (inFlight = "none")

\* a closing pulse has ended and the control cycle has finished
C33_Witness ==
  /\ inFlight = "none"
  /\ last = "loop"
  /\ pulse = "close"
  /\ ~isValveOpen
  /\ lastOpenedAt = 0

\* C34: lastOpenedAt is non-zero exactly when the valve is open.
C34_OpenIffTimestamp ==
  isValveOpen <=> lastOpenedAt # 0

\* C35: at most one of the two PWM channels carries a non-zero duty.
C35_OneChannelAtATime ==
  ~(ch1 # 0 /\ ch2 # 0)

\* an opening pulse is driven on channel 2 while channel 1, which drove the
\* closing pulse before it, is at 0
C35_Witness ==
  /\ inFlight = "open"
  /\ ch2 > 0
  /\ ch1 = 0
  /\ now # startTime

\* the time of day lies in the configured window
\* [BEGIN_HOUR:beginMinute, END_HOUR:endMinute)
InWindow ==
  LET t == hour * 60 + minute
      b == OPERATION_ALLOWED_BEGIN_HOUR * 60 + beginMinute
      e == OPERATION_ALLOWED_END_HOUR * 60 + endMinute
  IN IF b <= e THEN t >= b /\ t < e ELSE t >= b \/ t < e

\* C32: isOperationAllowed() is true exactly when the time of day lies in the
\* configured window, hour and minute parts of both bounds honoured.
C32_WindowHonoursMinutes ==
  IsOperationAllowed(hour) <=> InWindow

\* C36: as long as the accumulated total stays representable in the counter,
\* cumulativeOpenMillis decreases only in the reset step of valveDriverLoop,
\* and that step is taken only with the limit active: the limit was active
\* before the call or the call itself found the budget reached.  A total below
\* the budget is never reset.
C36_BudgetOnlyResetUnderLimit ==
  [][ /\ (cumulativeOpenMillis' < cumulativeOpenMillis
            /\ cumulativeOpenMillis + openFor < MillisWrap) => last' = "reset"
      /\ last' = "reset" =>
           \/ timeLimitActive
           \/ AddMillis(cumulativeOpenMillis,
                        RunningOpenMs(isValveOpen, lastOpenedAt, now)) >= MAX_TOTAL_OPEN_MS
    ]_vars

\* the housekeeping has run after a full inhibition period and a partly used
\* budget is still accounted
C36_Witness ==
  /\ last = "driverLoop"
  /\ ~timeLimitActive
  /\ cumulativeOpenMillis > 0
  /\ cumulativeOpenMillis < MAX_TOTAL_OPEN_MS
  /\ inhibitStartMillis # 0
  /\ inhibitedFor >= INHIBIT_RESET_MS
  /\ outsideFor = INHIBIT_RESET_MS

\* C37: the hysteresis latch changes only in a control cycle in THERMOSTAT
\* mode; cycles in other modes and mode commands leave it as it is, so the
\* first decision after re-entering THERMOSTAT mode starts from the latch held
\* when the mode was left.
C37_LatchOnlyInThermostat ==
  [][ /\ heatCall' # heatCall => (last' = "loop" /\ mode = "MODE_THERMOSTAT")
      /\ (last' = "loop" /\ mode = "MODE_THERMOSTAT") =>
           heatCall' = thermostatHeatCall(heatCall, tempF', setpointF)
    ]_vars

\* a cycle in mode OFF has closed the valve and the latch is still set
C37_Witness ==
  /\ heatCall
  /\ mode = "MODE_OFF"
  /\ last = "loop"
  /\ pulse = "close"
  /\ ~isValveOpen

\* C38: a failed sensor read leaves tempF and controlState.roomTempF unchanged;
\* the THERMOSTAT branch decides on the last valid reading, and while the
\* failure lasts from one cycle to the next the heat call and the valve state
\* stay what they were.
C38_FailedReadKeepsLastReading ==
  [][ (last' = "loop" /\ sensed' = "failed") =>
        /\ tempF' = tempF
        /\ roomTempF' = roomTempF
        /\ mode = "MODE_THERMOSTAT" =>
             heatCall' = thermostatHeatCall(heatCall, tempF, setpointF)
        /\ last = "loop" => (heatCall' = heatCall /\ isValveOpen' = isValveOpen)
    ]_vars

\* the sensor has failed after a valid reading and THERMOSTAT mode keeps the
\* valve open on that reading
C38_Witness ==
  /\ last = "loop"
  /\ sensed = "failed"
  /\ mode = "MODE_THERMOSTAT"
  /\ tempF # NaN
  /\ roomTempF = tempF
  /\ heatCall
  /\ isValveOpen
  /\ pulse = "none"

\* C39: wraparound of millis().  For an interval shorter than the period of
\* the counter, millis() - lastOpenedAt equals the true time the valve has
\* been open and millis() - inhibitStartMillis the true time since the
\* inhibition was recorded, whether or not the counter has wrapped meanwhile.
C39_ElapsedAcrossWrap ==
  /\ (isValveOpen /\ lastOpenedAt # 0 /\ openFor < MillisWrap) =>
       Elapsed(now, lastOpenedAt) = openFor
  /\ (inhibitStartMillis # 0 /\ inhibitedFor < MillisWrap) =>
       Elapsed(now, inhibitStartMillis) = inhibitedFor

\* millis() has wrapped while the valve is open and while inhibited
C39_Witness ==
  /\ isValveOpen
  /\ lastOpenedAt # 0
  /\ now < lastOpenedAt
  /\ openFor > 0
  /\ openFor < MillisWrap
  /\ inhibitStartMillis # 0
  /\ now < inhibitStartMillis
  /\ inhibitedFor < MillisWrap

\* C40: a command with an unaccepted or malformed value leaves the control
\* state unchanged, on the WebSocket and on the MQTT channel.
C40_MalformedCommandIgnored ==
  [][ last' = "malformed" =>
        UNCHANGED <<mode, setpointF, autoMode, powerOn, valveState>> ]_vars

====
